---------------------------- MODULE Spec2Model ----------------------------
(***************************************************************************)
(* A model of the nonogram solver of src/src/lib.rs: the block placement   *)
(* enumerator (BlockSpec, BlockSpecIterator), the row automaton            *)
(* (make_row_config, advance_row) and the explicit-stack search            *)
(* (check_config, solve_stacked, solve).                                   *)
(*                                                                         *)
(* Three specifications share the operators that model the code:           *)
(*   Spec      one call of solve on a puzzle drawn from a bounded set      *)
(*   SpecEnum  one BlockSpec built from a line and iterated to exhaustion  *)
(*   SpecRow   one row template fed a cell sequence through advance_row    *)
(***************************************************************************)
EXTENDS Integers, Sequences, FiniteSets, TLC

VARIABLES
    puzzle,       \* solve: the Puzzle argument
    pc,           \* solve: "start", "pop", "extend", "done"
    work,         \* solve_stacked: the work stack, top is the last element
    w,            \* solve_stacked: the WorkItem popped in this loop iteration
    iter,         \* solve_stacked: the BlockSpecIterator inside work.extend
    result,       \* solve: what the call ended with
    pops,         \* number of WorkItems popped so far
    created,      \* number of WorkItems constructed so far
    e_line,       \* SpecEnum: the (block_sizes, size) given to BlockSpec::new
    e_spec,       \* SpecEnum: the BlockSpec (or the failure) built from it
    e_iter,       \* SpecEnum: the BlockSpecIterator
    e_out,        \* SpecEnum: the placements next() has returned, in order
    e_pc,         \* SpecEnum: "new", "iter", "done", "panic"
    r_line,       \* SpecRow: the (block_sizes, size) of the row
    r_row,        \* SpecRow: the row state, a slice of the template
    r_in,         \* SpecRow: the cell values proposed so far
    r_pc,         \* SpecRow: "new", "run", "err", "panic"
    rec           \* SpecRec: what the call of solve_recursive ended with

solveVars == <<puzzle, pc, work, w, iter, result, pops, created>>
enumVars  == <<e_line, e_spec, e_iter, e_out, e_pc>>
rowVars   == <<r_line, r_row, r_in, r_pc>>
recVars   == <<rec>>
vars      == <<solveVars, enumVars, rowVars, recVars>>

-----------------------------------------------------------------------------
(* Bounds of the model *)

\* solve: number of rows (entries of horizontal) is 0..MaxRows
MaxRows == 3
\* solve: number of columns (entries of vertical) is 0..MaxCols
MaxCols == 2
\* a line of length L is given every block list with |B| + sum(B) <= L + 1 + MaxExcess
MaxExcess == 1
\* SpecEnum, SpecRow: line lengths are 0..MaxLineLen
MaxLineLen == 7

-----------------------------------------------------------------------------
(* Sequence helpers *)

RECURSIVE Sum(_)
Sum(s) == IF s = <<>> THEN 0 ELSE Head(s) + Sum(Tail(s))

Min(a, b) == IF a <= b THEN a ELSE b

\* iter::repeat(v).take(n)
Repeat(v, n) == [i \in 1..n |-> v]

\* Iterator::take(n) on a finite sequence
Take(s, n) == SubSeq(s, 1, Min(n, Len(s)))

\* Every list of positive block lengths with |B| + sum(B) <= n
RECURSIVE BlockLists(_)
BlockLists(n) ==
    {<<>>} \cup UNION {{<<b>> \o t : t \in BlockLists(n - 1 - b)} : b \in 1..(n - 1)}

\* The block lists a line of length L is given in this model
LineInputs(L) == BlockLists(L + 1 + MaxExcess)

-----------------------------------------------------------------------------
(* BlockSpec and BlockSpecIterator *)

MsgSize      == "Provided size below min requirement"
MsgSpaces    == "Invalid spaces state"
MsgIndex     == "index out of bounds"
MsgAssert    == "assertion failed: self.phase != ColumnConfigPhase::Exhausted"
MsgOverflow  == "attempt to subtract with overflow"

NoSpec == [block_sizes |-> <<>>, size |-> 0, n_space |-> 0]
NoIter == [spaces |-> <<>>, phase |-> "Exhausted"]

\* BlockSpec::new with the slack taken from size instead of size + 1
BlockSpecNewOffByOne(block_sizes, size) ==
    LET need == Len(block_sizes) + Sum(block_sizes) IN
    IF size >= need
    THEN [tag |-> "Ok", msg |-> "",
          spec |-> [block_sizes |-> block_sizes, size |-> size,
                    n_space |-> size - need]]
    ELSE [tag |-> "Panic", msg |-> MsgSize, spec |-> NoSpec]

\* BlockSpec::new with the slack taken from size + 2 instead of size + 1
BlockSpecNewExtraSlack(block_sizes, size) ==
    LET need == Len(block_sizes) + Sum(block_sizes) IN
    IF size + 2 >= need
    THEN [tag |-> "Ok", msg |-> "",
          spec |-> [block_sizes |-> block_sizes, size |-> size,
                    n_space |-> size + 2 - need]]
    ELSE [tag |-> "Panic", msg |-> MsgSize, spec |-> NoSpec]

\* BlockSpec::new: (size + 1).checked_sub(len + sum).expect(..)
BlockSpecNew(block_sizes, size) ==
    LET need == Len(block_sizes) + Sum(block_sizes) IN
    IF size + 1 >= need
    THEN [tag |-> "Ok", msg |-> "",
          spec |-> [block_sizes |-> block_sizes, size |-> size,
                    n_space |-> size + 1 - need]]
    ELSE [tag |-> "Panic", msg |-> MsgSize, spec |-> NoSpec]

\* BlockSpecIterator::new
BlockSpecIteratorNew(spec) ==
    [spaces |-> Repeat(0, Len(spec.block_sizes)), phase |-> "Starting"]

\* BlockSpecIterator::remaining_spaces; a negative value stands for the
\* None of checked_sub, on which expect panics
RemainingSpaces(spec, it) == spec.n_space - Sum(it.spaces)

\* the first index (1-based) with a non-zero entry, 0 when there is none
FirstNonZero(spaces) ==
    LET nz == {i \in 1..Len(spaces) : spaces[i] > 0} IN
    IF nz = {} THEN 0 ELSE CHOOSE i \in nz : \A j \in nz : i <= j

\* increment without the carry: exhausted as soon as no slack remains
IncrementNoCarry(spec, it) ==
    LET n_remain == RemainingSpaces(spec, it) IN
    IF it.phase = "Exhausted" THEN [tag |-> "Panic", msg |-> MsgAssert, it |-> it]
    ELSE IF n_remain < 0 THEN [tag |-> "Panic", msg |-> MsgSpaces, it |-> it]
    ELSE IF n_remain > 0 THEN
        IF Len(it.spaces) = 0
        THEN [tag |-> "Panic", msg |-> MsgIndex, it |-> it]
        ELSE [tag |-> "Ok", msg |-> "",
              it |-> [it EXCEPT !.spaces[1] = @ + 1]]
    ELSE [tag |-> "Ok", msg |-> "", it |-> [it EXCEPT !.phase = "Exhausted"]]

\* BlockSpecIterator::increment
Increment(spec, it) ==
    LET n_remain == RemainingSpaces(spec, it)
        i == FirstNonZero(it.spaces)
    IN
    IF it.phase = "Exhausted" THEN [tag |-> "Panic", msg |-> MsgAssert, it |-> it]
    ELSE IF n_remain < 0 THEN [tag |-> "Panic", msg |-> MsgSpaces, it |-> it]
    ELSE IF n_remain > 0 THEN
        IF Len(it.spaces) = 0
        THEN [tag |-> "Panic", msg |-> MsgIndex, it |-> it]
        ELSE [tag |-> "Ok", msg |-> "",
              it |-> [it EXCEPT !.spaces[1] = @ + 1]]
    ELSE IF i > 0 /\ i < Len(it.spaces)
    THEN [tag |-> "Ok", msg |-> "",
          it |-> [it EXCEPT !.spaces[i + 1] = @ + 1, !.spaces[i] = 0]]
    ELSE [tag |-> "Ok", msg |-> "", it |-> [it EXCEPT !.phase = "Exhausted"]]

\* the flat_map of make_config_iter over the zipped (spaces, block_sizes),
\* from entry i on
RECURSIVE Segments(_, _, _)
Segments(spaces, block_sizes, i) ==
    IF i > Min(Len(spaces), Len(block_sizes)) THEN <<>>
    ELSE Repeat(FALSE, IF i = 1 THEN spaces[i] ELSE spaces[i] + 1)
         \o Repeat(TRUE, block_sizes[i])
         \o Segments(spaces, block_sizes, i + 1)

\* BlockSpecIterator::make_config_iter, collected (callers never call it
\* on an exhausted iterator or with spaces above n_space)
MakeConfig(spec, it) ==
    Segments(it.spaces, spec.block_sizes, 1)
    \o Repeat(FALSE, RemainingSpaces(spec, it))

\* Iterator::next for BlockSpecIterator
IterNext(spec, it) ==
    LET inc == Increment(spec, it)
        it2 == IF it.phase = "Starting" THEN [it EXCEPT !.phase = "Running"]
               ELSE IF it.phase = "Running" THEN inc.it
               ELSE it
    IN
    IF it.phase = "Running" /\ inc.tag = "Panic"
    THEN [tag |-> "Panic", msg |-> inc.msg, it |-> it, cfg |-> <<>>]
    ELSE IF it2.phase = "Exhausted"
    THEN [tag |-> "None", msg |-> "", it |-> it2, cfg |-> <<>>]
    ELSE IF RemainingSpaces(spec, it2) < 0
    THEN [tag |-> "Panic", msg |-> MsgSpaces, it |-> it2, cfg |-> <<>>]
    ELSE [tag |-> "Some", msg |-> "", it |-> it2, cfg |-> MakeConfig(spec, it2)]

-----------------------------------------------------------------------------
(* Row automaton *)

\* make_row_config without the trailing sentinel cell
MakeRowConfigNoSentinel(bs, ovf) ==
    LET cc == BlockSpecIteratorNew(bs)
        n == bs.size - RemainingSpaces(bs, cc)
        cfg == MakeConfig(bs, cc)
    IN
    IF n < 0 /\ ovf = "panic"
    THEN [tag |-> "Panic", msg |-> MsgOverflow, row |-> <<>>]
    ELSE [tag |-> "Ok", msg |-> "",
          row |-> <<FALSE>> \o (IF n < 0 THEN cfg ELSE Take(cfg, n))]

\* make_row_config. bs.size - cc.remaining_spaces() is a usize subtraction:
\* when it underflows, a build with overflow checks panics (ovf = "panic")
\* and a build without them wraps to a count above any line length, so
\* that take() keeps the whole placement (ovf = "wrap").
MakeRowConfig(bs, ovf) ==
    LET cc == BlockSpecIteratorNew(bs)
        n == bs.size - RemainingSpaces(bs, cc)
        cfg == MakeConfig(bs, cc)
    IN
    IF n < 0 /\ ovf = "panic"
    THEN [tag |-> "Panic", msg |-> MsgOverflow, row |-> <<>>]
    ELSE [tag |-> "Ok", msg |-> "",
          row |-> <<FALSE>> \o (IF n < 0 THEN cfg ELSE Take(cfg, n)) \o <<FALSE>>]

\* advance_row with the column-count test one column too strict
AdvanceRowStrict(row, col, remaining_column_count) ==
    IF Len(row) = 0 THEN [tag |-> "Panic", row |-> row]
    ELSE IF row[1] THEN
        IF Len(row) < 2 THEN [tag |-> "Panic", row |-> row]
        ELSE IF row[2] = col THEN [tag |-> "Ok", row |-> Tail(row)]
        ELSE [tag |-> "Err", row |-> row]
    ELSE IF col THEN
        IF Len(row) > 1 THEN [tag |-> "Ok", row |-> Tail(row)]
        ELSE [tag |-> "Err", row |-> row]
    ELSE IF Len(row) <= remaining_column_count + 1
    THEN [tag |-> "Ok", row |-> row]
    ELSE [tag |-> "Err", row |-> row]

\* advance_row with the column-count test one column too loose
AdvanceRowLoose(row, col, remaining_column_count) ==
    IF Len(row) = 0 THEN [tag |-> "Panic", row |-> row]
    ELSE IF row[1] THEN
        IF Len(row) < 2 THEN [tag |-> "Panic", row |-> row]
        ELSE IF row[2] = col THEN [tag |-> "Ok", row |-> Tail(row)]
        ELSE [tag |-> "Err", row |-> row]
    ELSE IF col THEN
        IF Len(row) > 1 THEN [tag |-> "Ok", row |-> Tail(row)]
        ELSE [tag |-> "Err", row |-> row]
    ELSE IF Len(row) <= remaining_column_count + 3
    THEN [tag |-> "Ok", row |-> row]
    ELSE [tag |-> "Err", row |-> row]

\* advance_row without the row.len() > 1 test of the space-then-mark case
AdvanceRowNoLenCheck(row, col, remaining_column_count) ==
    IF Len(row) = 0 THEN [tag |-> "Panic", row |-> row]
    ELSE IF row[1] THEN
        IF Len(row) < 2 THEN [tag |-> "Panic", row |-> row]
        ELSE IF row[2] = col THEN [tag |-> "Ok", row |-> Tail(row)]
        ELSE [tag |-> "Err", row |-> row]
    ELSE IF col THEN [tag |-> "Ok", row |-> Tail(row)]
    ELSE IF Len(row) <= remaining_column_count + 2
    THEN [tag |-> "Ok", row |-> row]
    ELSE [tag |-> "Err", row |-> row]

\* advance_row; row[0] and row[1] of the code are row[1] and row[2] here
AdvanceRow(row, col, remaining_column_count) ==
    IF Len(row) = 0 THEN [tag |-> "Panic", row |-> row]
    ELSE IF row[1] THEN
        IF Len(row) < 2 THEN [tag |-> "Panic", row |-> row]
        ELSE IF row[2] = col THEN [tag |-> "Ok", row |-> Tail(row)]
        ELSE [tag |-> "Err", row |-> row]
    ELSE IF col THEN
        IF Len(row) > 1 THEN [tag |-> "Ok", row |-> Tail(row)]
        ELSE [tag |-> "Err", row |-> row]
    ELSE IF Len(row) <= remaining_column_count + 2
    THEN [tag |-> "Ok", row |-> row]
    ELSE [tag |-> "Err", row |-> row]

-----------------------------------------------------------------------------
(* Search *)

NoItem == [row_configs |-> <<>>, cols |-> <<>>, sol |-> <<>>]

\* a push that puts the new WorkItem below the others: the stack becomes
\* a queue
PushItemFront(stack, item) == <<item>> \o stack

\* Vec::extend pushes each WorkItem on the end of work, where pop takes it
PushItem(stack, item) == Append(stack, item)

\* all_configs: the placements of a BlockSpec in the order next() returns
\* them, from iterator state it on
RECURSIVE ConfigsFrom(_, _)
ConfigsFrom(spec, it) ==
    LET n == IterNext(spec, it) IN
    IF n.tag = "Some" THEN <<n.cfg>> \o ConfigsFrom(spec, n.it) ELSE <<>>

AllConfigs(spec) == ConfigsFrom(spec, BlockSpecIteratorNew(spec))

\* check_config: zip stops at the shorter of cfg and row_configs, collect
\* stops at the first Err
CheckConfig(cfg, row_configs, remaining_column_count) ==
    LET n == Min(Len(cfg), Len(row_configs))
        adv == [i \in 1..n |-> AdvanceRow(row_configs[i], cfg[i], remaining_column_count)]
        bad == {i \in 1..n : adv[i].tag # "Ok"}
        first == CHOOSE i \in bad : \A j \in bad : i <= j
    IN
    IF bad = {}
    THEN [tag |-> "Some", cfg |-> cfg, row_configs |-> [i \in 1..n |-> adv[i].row]]
    ELSE IF adv[first].tag = "Err"
    THEN [tag |-> "None", cfg |-> cfg, row_configs |-> <<>>]
    ELSE [tag |-> "Panic", cfg |-> cfg, row_configs |-> <<>>]

\* solve with the row BlockSpecs given n_row, the column length, as size
SolveSetupRowSize(p, ovf) ==
    LET n_col == Len(p.vertical)
        n_row == Len(p.horizontal)
        cols == [c \in 1..n_col |-> BlockSpecNew(p.vertical[c], n_row)]
        rows == [r \in 1..n_row |-> BlockSpecNew(p.horizontal[r], n_row)]
        rcs  == [r \in 1..n_row |-> MakeRowConfig(rows[r].spec, ovf)]
    IN
    IF \E c \in 1..n_col : cols[c].tag = "Panic"
    THEN [tag |-> "Panic", msg |-> MsgSize, item |-> NoItem]
    ELSE IF \E r \in 1..n_row : rows[r].tag = "Panic"
    THEN [tag |-> "Panic", msg |-> MsgSize, item |-> NoItem]
    ELSE IF \E r \in 1..n_row : rcs[r].tag = "Panic"
    THEN [tag |-> "Panic", msg |-> MsgOverflow, item |-> NoItem]
    ELSE [tag |-> "Ok", msg |-> "",
          item |-> [row_configs |-> [r \in 1..n_row |-> rcs[r].row],
                    cols |-> [c \in 1..n_col |-> cols[c].spec],
                    sol |-> <<>>]]

\* solve up to the call of solve_stacked: the column BlockSpecs, the row
\* BlockSpecs, the row templates
SolveSetup(p, ovf) ==
    LET n_col == Len(p.vertical)
        n_row == Len(p.horizontal)
        cols == [c \in 1..n_col |-> BlockSpecNew(p.vertical[c], n_row)]
        rows == [r \in 1..n_row |-> BlockSpecNew(p.horizontal[r], n_col)]
        rcs  == [r \in 1..n_row |-> MakeRowConfig(rows[r].spec, ovf)]
    IN
    IF \E c \in 1..n_col : cols[c].tag = "Panic"
    THEN [tag |-> "Panic", msg |-> MsgSize, item |-> NoItem]
    ELSE IF \E r \in 1..n_row : rows[r].tag = "Panic"
    THEN [tag |-> "Panic", msg |-> MsgSize, item |-> NoItem]
    ELSE IF \E r \in 1..n_row : rcs[r].tag = "Panic"
    THEN [tag |-> "Panic", msg |-> MsgOverflow, item |-> NoItem]
    ELSE [tag |-> "Ok", msg |-> "",
          item |-> [row_configs |-> [r \in 1..n_row |-> rcs[r].row],
                    cols |-> [c \in 1..n_col |-> cols[c].spec],
                    sol |-> <<>>]]

Running      == [tag |-> "Running", msg |-> "", grid |-> <<>>]
ReturnedNone == [tag |-> "None", msg |-> "", grid |-> <<>>]
ReturnedSome(sol) == [tag |-> "Some", msg |-> "", grid |-> sol]
Panicked(msg) == [tag |-> "Panic", msg |-> msg, grid |-> <<>>]

Overflows == {"panic", "wrap"}

\* the puzzles solve is called on
Puzzles ==
    UNION {{[horizontal |-> h, vertical |-> v] :
                h \in [1..nr -> LineInputs(nc)], v \in [1..nc -> LineInputs(nr)]} :
           nr \in 0..MaxRows, nc \in 0..MaxCols}

\* the lines BlockSpec::new is called on
Lines ==
    UNION {{[block_sizes |-> b, size |-> L] : b \in LineInputs(L)} : L \in 0..MaxLineLen}

-----------------------------------------------------------------------------
(* Spec: one call of solve *)

SolveIdle ==
    /\ puzzle = [horizontal |-> <<>>, vertical |-> <<>>]
    /\ pc = "idle" /\ work = <<>> /\ w = NoItem /\ iter = NoIter
    /\ result = Running /\ pops = 0 /\ created = 0

EnumIdle ==
    /\ e_line = [block_sizes |-> <<>>, size |-> 0]
    /\ e_spec = NoSpec /\ e_iter = NoIter /\ e_out = <<>> /\ e_pc = "idle"

RowIdle ==
    /\ r_line = [block_sizes |-> <<>>, size |-> 0]
    /\ r_row = <<>> /\ r_in = <<>> /\ r_pc = "idle"

RecIdle == rec = Running

Init ==
    /\ \E nr \in 0..MaxRows, nc \in 0..MaxCols :
         \E h \in [1..nr -> LineInputs(nc)], v \in [1..nc -> LineInputs(nr)] :
             puzzle = [horizontal |-> h, vertical |-> v]
    /\ pc = "start" /\ work = <<>> /\ w = NoItem /\ iter = NoIter
    /\ result = Running /\ pops = 0 /\ created = 0
    /\ EnumIdle /\ RowIdle /\ RecIdle

\* solve, a BlockSpec::new or make_row_config panics: no WorkItem is built
SolveAbort ==
    /\ pc = "start"
    /\ \E ovf \in Overflows :
         LET s == SolveSetup(puzzle, ovf) IN
         /\ s.tag = "Panic"
         /\ result' = Panicked(s.msg)
    /\ pc' = "done"
    /\ UNCHANGED <<puzzle, work, w, iter, pops, created, enumVars, rowVars, recVars>>

\* solve reaches solve_stacked, which builds the initial WorkItem
SolveStart ==
    /\ pc = "start"
    /\ \E ovf \in Overflows :
         LET s == SolveSetup(puzzle, ovf) IN
         /\ s.tag = "Ok"
         /\ work' = <<s.item>>
    /\ created' = 1
    /\ pc' = "pop"
    /\ UNCHANGED <<puzzle, w, iter, result, pops, enumVars, rowVars, recVars>>

\* work.pop() is None: return None
ReturnNone ==
    /\ pc = "pop" /\ work = <<>>
    /\ result' = ReturnedNone
    /\ pc' = "done"
    /\ UNCHANGED <<puzzle, work, w, iter, pops, created, enumVars, rowVars, recVars>>

\* the popped WorkItem has no columns left: return its sol
ReturnSome ==
    /\ pc = "pop" /\ work # <<>>
    /\ work[Len(work)].cols = <<>>
    /\ w' = work[Len(work)]
    /\ work' = SubSeq(work, 1, Len(work) - 1)
    /\ pops' = pops + 1
    /\ result' = ReturnedSome(work[Len(work)].sol)
    /\ pc' = "done"
    /\ UNCHANGED <<puzzle, iter, created, enumVars, rowVars, recVars>>

\* the popped WorkItem has columns left: start iterating its first column
PopExpand ==
    /\ pc = "pop" /\ work # <<>>
    /\ work[Len(work)].cols # <<>>
    /\ w' = work[Len(work)]
    /\ work' = SubSeq(work, 1, Len(work) - 1)
    /\ pops' = pops + 1
    /\ iter' = BlockSpecIteratorNew(work[Len(work)].cols[1])
    /\ pc' = "extend"
    /\ UNCHANGED <<puzzle, result, created, enumVars, rowVars, recVars>>

\* the next placement of the column, checked against the rows
NextCfg == IterNext(w.cols[1], iter)
Checked == CheckConfig(NextCfg.cfg, w.row_configs, Len(w.cols) - 1)

\* work.extend: a placement every row accepts becomes a pushed WorkItem
ExtendPush ==
    /\ pc = "extend"
    /\ NextCfg.tag = "Some" /\ Checked.tag = "Some"
    /\ iter' = NextCfg.it
    /\ work' = PushItem(work, [row_configs |-> Checked.row_configs,
                               cols |-> Tail(w.cols),
                               sol |-> Append(w.sol, Checked.cfg)])
    /\ created' = created + 1
    /\ UNCHANGED <<puzzle, pc, w, result, pops, enumVars, rowVars, recVars>>

\* work.extend: a placement some row rejects is dropped by filter_map
ExtendPrune ==
    /\ pc = "extend"
    /\ NextCfg.tag = "Some" /\ Checked.tag = "None"
    /\ iter' = NextCfg.it
    /\ UNCHANGED <<puzzle, pc, work, w, result, pops, created, enumVars, rowVars, recVars>>

\* work.extend: the column's iterator is exhausted, back to the loop head
ExtendEnd ==
    /\ pc = "extend"
    /\ NextCfg.tag = "None"
    /\ iter' = NextCfg.it
    /\ pc' = "pop"
    /\ UNCHANGED <<puzzle, work, w, result, pops, created, enumVars, rowVars, recVars>>

\* work.extend: next() or advance_row panics
ExtendPanic ==
    /\ pc = "extend"
    /\ \/ NextCfg.tag = "Panic"
       \/ NextCfg.tag = "Some" /\ Checked.tag = "Panic"
    /\ result' = Panicked(IF NextCfg.tag = "Panic" THEN NextCfg.msg ELSE MsgIndex)
    /\ pc' = "done"
    /\ UNCHANGED <<puzzle, work, w, iter, pops, created, enumVars, rowVars, recVars>>

Next ==
    \/ SolveAbort
    \/ SolveStart
    \/ ReturnNone
    \/ ReturnSome
    \/ PopExpand
    \/ ExtendPush
    \/ ExtendPrune
    \/ ExtendEnd
    \/ ExtendPanic

Spec == Init /\ [][Next]_vars

\* the loop of solve_stacked and the iteration inside it run to completion
FairSpec == Spec /\ WF_vars(Next)

-----------------------------------------------------------------------------
(* SpecRec: solve_recursive called on the arguments solve_stacked gets *)

\* the zip / map(advance_row) / collect of solve_recursive: zip stops at
\* the shorter of cfg and row_configs, collect stops at the first Err
RecAdvance(cfg, row_configs, rest_len) ==
    LET n == Min(Len(cfg), Len(row_configs))
        adv == [i \in 1..n |-> AdvanceRow(row_configs[i], cfg[i], rest_len)]
        bad == {i \in 1..n : adv[i].tag # "Ok"}
        first == CHOOSE i \in bad : \A j \in bad : i <= j
    IN
    IF bad = {}
    THEN [tag |-> "Ok", next_row_configs |-> [i \in 1..n |-> adv[i].row]]
    ELSE IF adv[first].tag = "Err"
    THEN [tag |-> "Err", next_row_configs |-> <<>>]
    ELSE [tag |-> "Panic", next_row_configs |-> <<>>]

\* sol.push(cfg): the placement goes on the end of the grid the recursive
\* call returned
RecPush(sol, cfg) == Append(sol, cfg)

RECURSIVE SolveRecursive(_, _)
RECURSIVE RecLoop(_, _, _)

\* solve_recursive, the for loop from iterator state it on: next() is
\* called only while no placement has led to a solution
RecLoop(row_configs, cols, it) ==
    LET n    == IterNext(cols[1], it)
        rest == Tail(cols)
        chk  == RecAdvance(n.cfg, row_configs, Len(rest))
        sub  == SolveRecursive(chk.next_row_configs, rest)
    IN
    IF n.tag = "None" THEN ReturnedNone
    ELSE IF n.tag = "Panic" THEN Panicked(n.msg)
    ELSE IF chk.tag = "Panic" THEN Panicked(MsgIndex)
    ELSE IF chk.tag = "Err" THEN RecLoop(row_configs, cols, n.it)
    ELSE IF sub.tag = "Panic" THEN sub
    ELSE IF sub.tag = "Some" THEN ReturnedSome(RecPush(sub.grid, n.cfg))
    ELSE RecLoop(row_configs, cols, n.it)

\* solve_recursive
SolveRecursive(row_configs, cols) ==
    IF Len(cols) = 0 THEN ReturnedSome(<<>>)
    ELSE RecLoop(row_configs, cols, BlockSpecIteratorNew(cols[1]))

\* the call of solve_recursive that solve makes in place of solve_stacked
\* (main.rs; commented out in lib.rs), on the same row templates and
\* column BlockSpecs: work holds the initial WorkItem alone
SolveRecursiveCall ==
    /\ pc = "pop" /\ pops = 0 /\ created = 1
    /\ rec = Running
    /\ rec' = SolveRecursive(work[1].row_configs, work[1].cols)
    /\ UNCHANGED <<solveVars, enumVars, rowVars>>

NextRec ==
    \/ SolveAbort
    \/ SolveStart
    \/ SolveRecursiveCall
    \/ ReturnNone
    \/ ReturnSome
    \/ PopExpand
    \/ ExtendPush
    \/ ExtendPrune
    \/ ExtendEnd
    \/ ExtendPanic

SpecRec == Init /\ [][NextRec]_vars

-----------------------------------------------------------------------------
(* SpecEnum: BlockSpec::new on one line, then next() until None *)

InitEnum ==
    /\ e_line \in Lines
    /\ e_spec = NoSpec /\ e_iter = NoIter /\ e_out = <<>> /\ e_pc = "new"
    /\ SolveIdle /\ RowIdle /\ RecIdle

NewLine == BlockSpecNew(e_line.block_sizes, e_line.size)

\* BlockSpec::new succeeds; into_iter gives a Starting iterator
ENewOk ==
    /\ e_pc = "new"
    /\ NewLine.tag = "Ok"
    /\ e_spec' = NewLine.spec
    /\ e_iter' = BlockSpecIteratorNew(NewLine.spec)
    /\ e_pc' = "iter"
    /\ UNCHANGED <<e_line, e_out, solveVars, rowVars, recVars>>

\* BlockSpec::new panics
ENewPanic ==
    /\ e_pc = "new"
    /\ NewLine.tag = "Panic"
    /\ e_pc' = "panic"
    /\ UNCHANGED <<e_line, e_spec, e_iter, e_out, solveVars, rowVars, recVars>>

ENextRes == IterNext(e_spec, e_iter)

\* next() returns Some(placement)
ENextSome ==
    /\ e_pc = "iter"
    /\ ENextRes.tag = "Some"
    /\ e_iter' = ENextRes.it
    /\ e_out' = Append(e_out, ENextRes.cfg)
    /\ UNCHANGED <<e_line, e_spec, e_pc, solveVars, rowVars, recVars>>

\* next() returns None
ENextNone ==
    /\ e_pc = "iter"
    /\ ENextRes.tag = "None"
    /\ e_iter' = ENextRes.it
    /\ e_pc' = "done"
    /\ UNCHANGED <<e_line, e_spec, e_out, solveVars, rowVars, recVars>>

\* next() panics
ENextPanic ==
    /\ e_pc = "iter"
    /\ ENextRes.tag = "Panic"
    /\ e_pc' = "panic"
    /\ UNCHANGED <<e_line, e_spec, e_iter, e_out, solveVars, rowVars, recVars>>

NextEnum ==
    \/ ENewOk
    \/ ENewPanic
    \/ ENextSome
    \/ ENextNone
    \/ ENextPanic

SpecEnum == InitEnum /\ [][NextEnum]_vars

-----------------------------------------------------------------------------
(* SpecRow: make_row_config on one row, then advance_row once per column, *)
(* the way check_config calls it: column i of L has L - i columns after it *)

InitRow ==
    /\ r_line \in Lines
    /\ r_row = <<>> /\ r_in = <<>> /\ r_pc = "new"
    /\ SolveIdle /\ EnumIdle /\ RecIdle

NewRow == BlockSpecNew(r_line.block_sizes, r_line.size)

\* BlockSpec::new and make_row_config succeed: the row state is the template
RNewOk ==
    /\ r_pc = "new"
    /\ NewRow.tag = "Ok"
    /\ \E ovf \in Overflows :
         /\ MakeRowConfig(NewRow.spec, ovf).tag = "Ok"
         /\ r_row' = MakeRowConfig(NewRow.spec, ovf).row
    /\ r_pc' = "run"
    /\ UNCHANGED <<r_line, r_in, solveVars, enumVars, recVars>>

\* BlockSpec::new or make_row_config panics
RNewPanic ==
    /\ r_pc = "new"
    /\ \/ NewRow.tag = "Panic"
       \/ /\ NewRow.tag = "Ok"
          /\ \E ovf \in Overflows : MakeRowConfig(NewRow.spec, ovf).tag = "Panic"
    /\ r_pc' = "panic"
    /\ UNCHANGED <<r_line, r_row, r_in, solveVars, enumVars, recVars>>

RAdvanceRes(col) == AdvanceRow(r_row, col, r_line.size - (Len(r_in) + 1))

\* advance_row returns Ok(slice)
RAdvanceOk ==
    /\ r_pc = "run"
    /\ Len(r_in) < r_line.size
    /\ \E col \in BOOLEAN :
         /\ RAdvanceRes(col).tag = "Ok"
         /\ r_row' = RAdvanceRes(col).row
         /\ r_in' = Append(r_in, col)
    /\ UNCHANGED <<r_line, r_pc, solveVars, enumVars, recVars>>

\* advance_row returns Err(()) or panics on an index
RAdvanceFail ==
    /\ r_pc = "run"
    /\ Len(r_in) < r_line.size
    /\ \E col \in BOOLEAN :
         /\ RAdvanceRes(col).tag # "Ok"
         /\ r_pc' = (IF RAdvanceRes(col).tag = "Err" THEN "err" ELSE "panic")
         /\ r_in' = Append(r_in, col)
    /\ UNCHANGED <<r_line, r_row, solveVars, enumVars, recVars>>

NextRow ==
    \/ RNewOk
    \/ RNewPanic
    \/ RAdvanceOk
    \/ RAdvanceFail

SpecRow == InitRow /\ [][NextRow]_vars

-----------------------------------------------------------------------------
(* What the puzzle means, stated without the solver's operators *)

\* run-length decoding of the cells v[i..], cur filled cells already open
RECURSIVE RunsFrom(_, _, _)
RunsFrom(v, i, cur) ==
    IF i > Len(v) THEN (IF cur > 0 THEN <<cur>> ELSE <<>>)
    ELSE IF v[i] THEN RunsFrom(v, i + 1, cur + 1)
    ELSE (IF cur > 0 THEN <<cur>> ELSE <<>>) \o RunsFrom(v, i + 1, 0)

\* the lengths of the maximal filled runs of v, in order
RunLengths(v) == RunsFrom(v, 1, 0)

\* every legal placement of the blocks B in a line of length L
LegalPlacements(B, L) == {v \in [1..L -> BOOLEAN] : RunLengths(v) = B}

\* v is the start of some legal placement of B in a line of length L
IsLegalPrefix(v, B, L) ==
    \E p \in LegalPlacements(B, L) : \A i \in 1..Len(v) : p[i] = v[i]

RECURSIVE Binomial(_, _)
Binomial(n, k) ==
    IF k = 0 THEN 1 ELSE IF n = 0 THEN 0
    ELSE Binomial(n - 1, k - 1) + Binomial(n - 1, k)

\* the slack of a line as the specification defines it
Slack(B, L) == L + 1 - (Len(B) + Sum(B))

Range(s) == {s[i] : i \in 1..Len(s)}

-----------------------------------------------------------------------------
(* Claims about the enumerator, under SpecEnum *)

EnumBuilt == e_pc \in {"iter", "done", "panic"}

\* C3: for a line with at least one block and slack s >= 0, every placement
\* next() returns has length L and runs exactly B; no placement is returned
\* twice; next() never panics; and when next() returns None the placements
\* returned are exactly the legal placements of B in L, C(s+k, k) of them.
C3_EnumeratorExact ==
    LET B == e_line.block_sizes
        L == e_line.size
        k == Len(B)
    IN
    (k >= 1 /\ Slack(B, L) >= 0 /\ e_pc # "new") =>
        /\ e_pc # "panic"
        /\ \A i \in 1..Len(e_out) :
             /\ Len(e_out[i]) = L
             /\ RunLengths(e_out[i]) = B
        /\ \A i, j \in 1..Len(e_out) : i # j => e_out[i] # e_out[j]
        /\ e_pc = "done" =>
             /\ Len(e_out) = Binomial(Slack(B, L) + k, k)
             /\ Range(e_out) = LegalPlacements(B, L)

\* C3 witness: a two-block line with slack, iterated to None after carries
C3_Witness ==
    /\ e_pc = "done"
    /\ Len(e_line.block_sizes) >= 2
    /\ Slack(e_line.block_sizes, e_line.size) >= 2
    /\ Len(e_out) >= 6

\* C5, as the specification states it: a zero-block line yields exactly one
\* placement, of exactly L empty cells, and is then exhausted without error.
C5_ZeroBlockLine ==
    (e_line.block_sizes = <<>> /\ EnumBuilt) =>
        /\ e_pc # "panic"
        /\ Len(e_out) <= 1
        /\ Len(e_out) = 1 => e_out[1] = Repeat(FALSE, e_line.size)
        /\ e_pc = "done" => Len(e_out) = 1

IsLine(B, L) == e_line = [block_sizes |-> B, size |-> L]

\* C8, as the specification states it: slack is L+1-(|B|+sum(B)); [2,3] in 7
\* has slack 1 and 3 placements, [2] in 7 slack 5 and 6 placements, [2,2]
\* in 7 slack 3 and 6 placements.
C8_ReferenceLinesAsStated ==
    (e_pc \in {"iter", "done"}) =>
        /\ e_spec.n_space = Slack(e_line.block_sizes, e_line.size)
        /\ IsLine(<<2, 3>>, 7) => e_spec.n_space = 1 /\ (e_pc = "done" => Len(e_out) = 3)
        /\ IsLine(<<2>>, 7) => e_spec.n_space = 5 /\ (e_pc = "done" => Len(e_out) = 6)
        /\ IsLine(<<2, 2>>, 7) => e_spec.n_space = 3 /\ (e_pc = "done" => Len(e_out) = 6)

\* C8, amended: the same, with slack 2 (not 3) for [2,2] in 7.
C8_ReferenceLines ==
    (e_pc \in {"iter", "done"}) =>
        /\ e_spec.n_space = Slack(e_line.block_sizes, e_line.size)
        /\ IsLine(<<2, 3>>, 7) => e_spec.n_space = 1 /\ (e_pc = "done" => Len(e_out) = 3)
        /\ IsLine(<<2>>, 7) => e_spec.n_space = 5 /\ (e_pc = "done" => Len(e_out) = 6)
        /\ IsLine(<<2, 2>>, 7) => e_spec.n_space = 2 /\ (e_pc = "done" => Len(e_out) = 6)

\* C8 witness: the line [2,2] in 7 iterated to None
C8_Witness ==
    /\ IsLine(<<2, 2>>, 7)
    /\ e_pc = "done"
    /\ Len(e_out) = 6

-----------------------------------------------------------------------------
(* Claims about the row automaton, under SpecRow *)

\* C10: for a row with at least one block and slack >= 0, the calls of
\* advance_row on v_1..v_j (column i with L - i columns after it) all
\* succeed exactly when v_1..v_j is a prefix of a legal placement of B in
\* L; no call panics.
C10_RowAutomatonExact ==
    LET B == r_line.block_sizes
        L == r_line.size
    IN
    (Len(B) >= 1 /\ Slack(B, L) >= 0 /\ r_pc # "new") =>
        /\ r_pc \in {"run", "err"}
        /\ (r_pc = "run") <=> IsLegalPrefix(r_in, B, L)

\* C10 witness: a whole two-block row with slack accepted cell by cell
C10_Witness ==
    /\ r_pc = "run"
    /\ Len(r_line.block_sizes) >= 2
    /\ Slack(r_line.block_sizes, r_line.size) >= 2
    /\ Len(r_in) = r_line.size
    /\ r_in[1] = FALSE

-----------------------------------------------------------------------------
(* Claims about solve, under Spec *)

NRow(p) == Len(p.horizontal)
NCol(p) == Len(p.vertical)

\* row r of a column-major grid
GridRow(g, r) == [c \in 1..Len(g) |-> g[c][r]]

\* g is a column-major grid of p's shape meeting every run constraint
Satisfies(g, p) ==
    /\ Len(g) = NCol(p)
    /\ \A c \in 1..NCol(p) : Len(g[c]) = NRow(p)
    /\ \A c \in 1..NCol(p) : RunLengths(g[c]) = p.vertical[c]
    /\ \A r \in 1..NRow(p) : RunLengths(GridRow(g, r)) = p.horizontal[r]

\* some grid satisfies p: one legal placement per column, rows decoding right
HasSolution(p) ==
    \E g \in [1..NCol(p) -> [1..NRow(p) -> BOOLEAN]] :
        /\ \A c \in 1..NCol(p) : RunLengths(g[c]) = p.vertical[c]
        /\ \A r \in 1..NRow(p) : RunLengths(GridRow(g, r)) = p.horizontal[r]

\* every line of p has slack >= 0
WellFormed(p) ==
    /\ \A c \in 1..NCol(p) : Slack(p.vertical[c], NRow(p)) >= 0
    /\ \A r \in 1..NRow(p) : Slack(p.horizontal[r], NCol(p)) >= 0

\* every line of p has at least one block
NoEmptyLine(p) ==
    /\ \A c \in 1..NCol(p) : p.vertical[c] # <<>>
    /\ \A r \in 1..NRow(p) : p.horizontal[r] # <<>>

\* the first line BlockSpec::new is called on that is malformed: solve
\* builds the columns in order, then the rows in order
FirstMalformed(p) ==
    LET badc == {c \in 1..NCol(p) : Slack(p.vertical[c], NRow(p)) < 0}
        badr == {r \in 1..NRow(p) : Slack(p.horizontal[r], NCol(p)) < 0}
    IN
    IF badc # {} THEN <<"column", CHOOSE c \in badc : \A d \in badc : c <= d>>
    ELSE IF badr # {} THEN <<"row", CHOOSE r \in badr : \A d \in badr : r <= d>>
    ELSE <<"none", 0>>

\* C1, as the specification states it: a grid solve returns has N_col
\* entries of N_row cells, entry c decodes to vertical[c] and row r decodes
\* to horizontal[r].
C1_Soundness ==
    result.tag = "Some" => Satisfies(result.grid, puzzle)

\* what is left of C1 when no line is a zero-block line: every grid
\* returned satisfies the puzzle
SoundOnBlockLines ==
    (result.tag = "Some" /\ NoEmptyLine(puzzle)) => Satisfies(result.grid, puzzle)

\* the loop of solve_stacked ends, by a return or by a panic
Terminates == <>(pc = "done")

\* C2: for a puzzle whose lines all have at least one block and slack >= 0,
\* solve ends with a grid if some grid satisfies the puzzle, and ends with
\* none only if no grid does.
C2_Completeness ==
    (pc = "done" /\ NoEmptyLine(puzzle) /\ WellFormed(puzzle)) =>
        /\ HasSolution(puzzle) => result.tag = "Some"
        /\ result.tag = "None" => ~HasSolution(puzzle)

\* C2 witness: a satisfiable puzzle on which the search pruned or backtracked
\* (more WorkItems popped than a straight descent needs) before returning
C2_Witness ==
    /\ pc = "done"
    /\ NoEmptyLine(puzzle) /\ WellFormed(puzzle)
    /\ HasSolution(puzzle)
    /\ result.tag = "Some"
    /\ NCol(puzzle) >= 2 /\ NRow(puzzle) >= 2
    /\ pops > NCol(puzzle) + 1

\* C4: solve ends with the malformed-line panic exactly when some line has
\* L + 1 < |B| + sum(B); it then has built and popped no WorkItem and does
\* not report none.
C4_MalformedLine ==
    pc = "done" =>
        /\ (result = Panicked(MsgSize)) <=> ~WellFormed(puzzle)
        /\ ~WellFormed(puzzle) =>
             /\ created = 0 /\ pops = 0 /\ work = <<>>
             /\ result.tag # "None"

\* C4 witness: horizontal [[3]], vertical [[1],[1]] ended by the panic
C4_Witness ==
    /\ puzzle = [horizontal |-> << <<3>> >>, vertical |-> << <<1>>, <<1>> >>]
    /\ pc = "done"
    /\ result = Panicked(MsgSize)

\* C6, as the specification states it, in its final-result form: on a
\* puzzle whose lines all have slack >= 0 solve ends with a grid or with
\* none, never with an abort, and with none when no grid satisfies it.
C6_NormalOutcome ==
    (pc = "done" /\ WellFormed(puzzle)) =>
        /\ result.tag \in {"Some", "None"}
        /\ ~HasSolution(puzzle) => result.tag = "None"

\* the failure that solve ends with on puzzle q when a line is malformed
MalformedFailure(q) == Panicked(SolveSetup(q, "panic").msg)

\* C7, as the specification states it: the failure solve raises on a
\* malformed line identifies the line, that is, no puzzle whose first
\* malformed line is another one raises the same failure.
C7_FailureIdentifiesLine ==
    (pc = "done" /\ ~WellFormed(puzzle)) =>
        \A q \in Puzzles :
            (~WellFormed(q) /\ MalformedFailure(q) = result) =>
                FirstMalformed(q) = FirstMalformed(puzzle)

-----------------------------------------------------------------------------
(* Claims about the row states of the search, under Spec *)

\* the template make_row_config builds for row r of p (the two overflow
\* outcomes differ only in whether a template is built at all)
RowTemplate(p, r) ==
    MakeRowConfig(BlockSpecNew(p.horizontal[r], NCol(p)).spec, "wrap").row

IsSuffix(s, t) ==
    /\ Len(s) <= Len(t)
    /\ s = SubSeq(t, Len(t) - Len(s) + 1, Len(t))

\* the WorkItems that exist: those on the stack and the one popped last
LiveItems == Range(work) \cup (IF w = NoItem THEN {} ELSE {w})

\* C11: on a puzzle whose lines all have slack >= 0, every row state of
\* every WorkItem is a non-empty suffix of its template, has at least two
\* elements when its head is filled, and advance_row on it never indexes
\* out of bounds; with a filled head it returns state[1:] exactly when the
\* proposed value equals state[1] and fails otherwise.
C11_IndexSafety ==
    WellFormed(puzzle) =>
        \A it \in LiveItems : \A r \in 1..Len(it.row_configs) :
            LET row == it.row_configs[r] IN
            /\ Len(it.row_configs) = NRow(puzzle)
            /\ Len(row) >= 1
            /\ IsSuffix(row, RowTemplate(puzzle, r))
            /\ row[1] => Len(row) >= 2
            /\ \A col \in BOOLEAN, n \in 0..NCol(puzzle) :
                 LET a == AdvanceRow(row, col, n) IN
                 /\ a.tag # "Panic"
                 /\ row[1] =>
                      /\ (col = row[2]) => (a.tag = "Ok" /\ a.row = Tail(row))
                      /\ (col # row[2]) => a.tag = "Err"

\* C11 witness: a popped WorkItem with a row whose head is filled, being
\* extended by a placement of its next column
C11_Witness ==
    /\ pc = "extend"
    /\ WellFormed(puzzle)
    /\ NextCfg.tag = "Some"
    /\ \E r \in 1..Len(w.row_configs) :
         /\ w.row_configs[r][1]
         /\ w.row_configs[r] = Tail(RowTemplate(puzzle, r))

-----------------------------------------------------------------------------
(* Claims about single advance_row calls, under SpecRow *)

\* a row state on which check_config calls advance_row next: the row is
\* built, no call has failed and a column is left
RowCallable ==
    /\ r_pc = "run"
    /\ Len(r_in) < r_line.size

\* the remaining_column_count of that next call
RowRemaining == r_line.size - (Len(r_in) + 1)

\* C12, as the specification states it: on every state with an empty head,
\* the state of the trailing sentinel alone included, a filled proposed
\* value succeeds with new state state[1:].
C12_SpaceThenMarkAsStated ==
    (RowCallable /\ ~r_row[1]) =>
        LET a == AdvanceRow(r_row, TRUE, RowRemaining) IN
        a.tag = "Ok" /\ a.row = Tail(r_row)

\* C12, amended: on a state with an empty head a filled proposed value
\* succeeds with new state state[1:] when the state has more than one
\* element, and fails on the state of the trailing sentinel alone.
C12_SpaceThenMark ==
    (RowCallable /\ ~r_row[1]) =>
        LET a == AdvanceRow(r_row, TRUE, RowRemaining) IN
        /\ Len(r_row) > 1 => (a.tag = "Ok" /\ a.row = Tail(r_row))
        /\ Len(r_row) = 1 => a.tag = "Err"

\* C12 witness: a row with blocks reduced to its trailing sentinel while a
\* column is still to come
C12_Witness ==
    /\ RowCallable
    /\ r_line.block_sizes # <<>>
    /\ r_row = <<FALSE>>

ExampleState == <<FALSE, TRUE, TRUE, FALSE, TRUE, FALSE>>

\* C13: on every state with an empty head, an empty proposed value with n
\* columns remaining returns the state unchanged when len(state) <= n + 2
\* and fails when len(state) > n + 2, for every n and for the n of the
\* call check_config makes; [F,T,T,F,T,F] is kept for n = 4 and rejected
\* for n = 3.
C13_SpaceThenSpace ==
    /\ (r_pc = "run" /\ ~r_row[1]) =>
         \A n \in 0..(MaxLineLen + 1) :
             LET a == AdvanceRow(r_row, FALSE, n) IN
             /\ Len(r_row) <= n + 2 => (a.tag = "Ok" /\ a.row = r_row)
             /\ Len(r_row) > n + 2 => a.tag = "Err"
    /\ (r_pc = "run" /\ r_row = ExampleState) =>
         /\ AdvanceRow(r_row, FALSE, 4) = [tag |-> "Ok", row |-> ExampleState]
         /\ AdvanceRow(r_row, FALSE, 3).tag = "Err"
    /\ (r_pc = "err" /\ ~r_row[1] /\ ~r_in[Len(r_in)]) =>
         Len(r_row) > (r_line.size - Len(r_in)) + 2

\* C13 witness: [2,1] in 5 columns, the example state kept by the first
\* empty cell (4 columns after it) and rejected by the second (3 after it)
C13_Witness ==
    /\ r_line = [block_sizes |-> <<2, 1>>, size |-> 5]
    /\ r_row = ExampleState
    /\ r_in = <<FALSE, FALSE>>
    /\ r_pc = "err"

-----------------------------------------------------------------------------
(* Claims about the row template, under SpecRow *)

\* the runs of B, each filled, separated by exactly one empty cell
RECURSIVE PackedRuns(_)
PackedRuns(B) ==
    IF B = <<>> THEN <<>>
    ELSE Repeat(TRUE, Head(B))
         \o (IF Tail(B) = <<>> THEN <<>> ELSE <<FALSE>> \o PackedRuns(Tail(B)))

\* the left-packed placement of B in a line of length L: the runs, then
\* the slack as trailing empty cells
LeftPacked(B, L) == PackedRuns(B) \o Repeat(FALSE, L - Len(PackedRuns(B)))

\* the row state is the template make_row_config returned
RowFresh == r_pc = "run" /\ r_in = <<>>

RowHasBlocks ==
    /\ Len(r_line.block_sizes) >= 1
    /\ Slack(r_line.block_sizes, r_line.size) >= 0

\* C14, as the specification states it: the template is a sentinel, the
\* left-packed placement of length L with the slack as trailing empty
\* cells, and a sentinel.
C14_TemplateAsStated ==
    (RowFresh /\ RowHasBlocks) =>
        r_row = <<FALSE>> \o LeftPacked(r_line.block_sizes, r_line.size) \o <<FALSE>>

\* C14, amended: the template is a sentinel, the runs of B separated by
\* exactly one empty cell (the left-packed placement without its trailing
\* slack, L - slack cells), and a sentinel; for [2,1] in 10 it is
\* [F,T,T,F,T,F].
C14_Template ==
    /\ (RowFresh /\ RowHasBlocks) =>
         /\ r_row = <<FALSE>> \o PackedRuns(r_line.block_sizes) \o <<FALSE>>
         /\ Len(r_row) = r_line.size - Slack(r_line.block_sizes, r_line.size) + 2
    /\ (RowFresh /\ r_line.block_sizes = <<2, 1>>) =>
         /\ r_row = ExampleState
         /\ MakeRowConfig(BlockSpecNew(<<2, 1>>, 10).spec, "panic").row = ExampleState

\* C14 witness: the template of a two-block row with slack
C14_Witness ==
    /\ RowFresh
    /\ r_line.block_sizes = <<2, 1>>
    /\ Slack(r_line.block_sizes, r_line.size) >= 2

-----------------------------------------------------------------------------
(* Claims about the space-distribution vector, under SpecEnum *)

EnumHasBlocks ==
    /\ Len(e_line.block_sizes) >= 1
    /\ Slack(e_line.block_sizes, e_line.size) >= 0

\* the vector sp is a distribution of at most s units over k gaps
IsDistribution(sp, k, s) ==
    /\ Len(sp) = k
    /\ \A i \in 1..k : sp[i] >= 0
    /\ Sum(sp) <= s

\* the successor step of the specification, from vector sp to vector sp2
\* or to exhaustion (done), with k entries and slack s
SuccessorStep(sp, sp2, done, k, s) ==
    LET nz == {i \in 1..k : sp[i] > 0} IN
    IF s - Sum(sp) > 0
    THEN ~done /\ sp2 = [sp EXCEPT ![1] = @ + 1]
    ELSE IF nz # {} /\ (\E i \in nz : i < k /\ \A j \in nz : i <= j)
    THEN LET i == CHOOSE i \in nz : \A j \in nz : i <= j IN
         ~done /\ sp2 = [sp EXCEPT ![i] = 0, ![i + 1] = @ + 1]
    ELSE done /\ sp2 = sp

\* C15: for a line with at least one block and slack s >= 0, in every state
\* the iterator reaches the vector has one non-negative entry per block
\* and sum <= s, next() never panics, and each next() either leaves the
\* vector alone (the first call) or changes it by the successor step:
\* s[0] incremented when slack remains, otherwise the lowest non-zero entry
\* zeroed and its right neighbour incremented, with exhaustion when that
\* entry is the last or there is none.
C15_SpacesInvariant ==
    /\ [](EnumHasBlocks /\ EnumBuilt =>
            /\ e_pc # "panic"
            /\ IsDistribution(e_iter.spaces, Len(e_line.block_sizes),
                              Slack(e_line.block_sizes, e_line.size)))
    /\ [][(EnumHasBlocks /\ e_pc = "iter") =>
            IF e_iter.phase = "Starting"
            THEN e_iter'.spaces = e_iter.spaces /\ e_pc' = "iter"
            ELSE SuccessorStep(e_iter.spaces, e_iter'.spaces, e_pc' = "done",
                               Len(e_line.block_sizes),
                               Slack(e_line.block_sizes, e_line.size))]_vars

\* C15 witness: a three-block line whose vector has carried twice and then
\* taken slack at the front again
C15_Witness ==
    /\ e_pc = "iter"
    /\ Len(e_line.block_sizes) = 3
    /\ e_iter.spaces[3] > 0 /\ e_iter.spaces[1] > 0

-----------------------------------------------------------------------------
(* Claims about the work stack, under Spec *)

\* the number of legal placements of column c of p
Placements(p, c) ==
    Binomial(Slack(p.vertical[c], NRow(p)) + Len(p.vertical[c]), Len(p.vertical[c]))

RECURSIVE SumPlacements(_, _)
SumPlacements(p, c) ==
    IF c = 0 THEN 0 ELSE Placements(p, c) + SumPlacements(p, c - 1)

\* the WorkItems on the stack that have d columns assigned
AtDepth(d) == {i \in 1..Len(work) : Len(work[i].sol) = d}

\* C16, as the specification states it: the work stack never holds more
\* than N_col WorkItems (here on the puzzles that have a column and no
\* zero-block line; with N_col = 0 the initial WorkItem alone exceeds it).
C16_StackDepthAsStated ==
    (NoEmptyLine(puzzle) /\ NCol(puzzle) >= 1) => Len(work) <= NCol(puzzle)

\* C16, amended: the stack holds at most one WorkItem with no column
\* assigned and, for each c, at most as many WorkItems with c columns
\* assigned as column c has placements (all viable siblings are pushed),
\* so at most 1 + the sum of the columns' placement counts; what N_col
\* bounds is the number of columns assigned in a WorkItem.
C16_StackBound ==
    /\ Cardinality(AtDepth(0)) <= 1
    /\ \A c \in 1..NCol(puzzle) : Cardinality(AtDepth(c)) <= Placements(puzzle, c)
    /\ Len(work) <= 1 + SumPlacements(puzzle, NCol(puzzle))
    /\ \A i \in 1..Len(work) :
         Len(work[i].sol) + Len(work[i].cols) = NCol(puzzle)

\* C16 witness: more WorkItems on the stack than the puzzle has columns
C16_Witness ==
    /\ NoEmptyLine(puzzle)
    /\ NCol(puzzle) >= 2
    /\ Len(work) > NCol(puzzle)

\* the position of each column's placement in that column's enumeration
OrderKey(p, g) ==
    [c \in 1..Len(g) |->
        LET all == AllConfigs(BlockSpecNew(p.vertical[c], NRow(p)).spec) IN
        CHOOSE i \in 1..Len(all) : all[i] = g[c]]

\* a comes before b in depth-first order under the enumerator's order
LexLess(a, b) ==
    \E c \in 1..Min(Len(a), Len(b)) :
        /\ a[c] < b[c]
        /\ \A d \in 1..(c - 1) : a[d] = b[d]

\* the grids that satisfy p
Solutions(p) ==
    {g \in [1..NCol(p) -> [1..NRow(p) -> BOOLEAN]] : Satisfies(g, p)}

BlockPuzzle == NoEmptyLine(puzzle) /\ WellFormed(puzzle)

\* C17, as the specification states it: the earliest-enumerated viable
\* placement of a column is expanded before its later siblings, and the
\* grid returned is the first solution in depth-first order under the
\* enumerator's placement order.
C17_FirstSolutionAsStated ==
    /\ (BlockPuzzle /\ work # <<>>) =>
         \A i \in 1..(Len(work) - 1) :
             Len(work[i].sol) = Len(work[Len(work)].sol) =>
                 LexLess(OrderKey(puzzle, work[Len(work)].sol),
                         OrderKey(puzzle, work[i].sol))
    /\ (BlockPuzzle /\ result.tag = "Some") =>
         \A g \in Solutions(puzzle) :
             g = result.grid
             \/ LexLess(OrderKey(puzzle, result.grid), OrderKey(puzzle, g))

\* C17, amended: the stack holds siblings in enumeration order with the
\* latest-enumerated on top, so the latest-enumerated viable placement of
\* a column is expanded first, and the grid returned is the last solution
\* in depth-first order under the enumerator's placement order (the first
\* under the reversed order); the search stops at it.
C17_LastSolution ==
    /\ BlockPuzzle =>
         \A i, j \in 1..Len(work) :
             i < j =>
                 /\ Len(work[i].sol) <= Len(work[j].sol)
                 /\ Len(work[i].sol) = Len(work[j].sol) =>
                      LexLess(OrderKey(puzzle, work[i].sol),
                              OrderKey(puzzle, work[j].sol))
    /\ (BlockPuzzle /\ result.tag = "Some") =>
         /\ pc = "done"
         /\ \A g \in Solutions(puzzle) :
              g = result.grid
              \/ LexLess(OrderKey(puzzle, g), OrderKey(puzzle, result.grid))

\* C17 witness: a puzzle with several solutions, one returned while other
\* WorkItems are still on the stack
C17_Witness ==
    /\ BlockPuzzle
    /\ result.tag = "Some"
    /\ Cardinality(Solutions(puzzle)) >= 2
    /\ work # <<>>

\* C19, as the specification states it: on a puzzle whose lines all have
\* slack >= 0, every row state of every WorkItem on the stack has
\* len - 2 <= the number of columns the WorkItem has left, so at most 2
\* elements when none is left.
C19_RowFeasibility ==
    WellFormed(puzzle) =>
        \A i \in 1..Len(work) : \A r \in 1..Len(work[i].row_configs) :
            Len(work[i].row_configs[r]) - 2 <= Len(work[i].cols)

\* what is left of C19 when no line is a zero-block line
RowFeasibilityOnBlockLines ==
    BlockPuzzle =>
        \A i \in 1..Len(work) : \A r \in 1..Len(work[i].row_configs) :
            Len(work[i].row_configs[r]) - 2 <= Len(work[i].cols)

-----------------------------------------------------------------------------
(* Claims about solve_recursive, under SpecRec *)

Reverse(s) == [i \in 1..Len(s) |-> s[Len(s) + 1 - i]]

\* the placements g[c], g[c+1], ... are accepted one after the other by
\* every row under advance_row, from the row states rows on, in puzzle p
RECURSIVE RowsAcceptFrom(_, _, _, _)
RowsAcceptFrom(rows, g, c, p) ==
    IF c > Len(g) THEN TRUE
    ELSE LET a == RecAdvance(g[c], rows, NCol(p) - c) IN
         /\ a.tag = "Ok"
         /\ RowsAcceptFrom(a.next_row_configs, g, c + 1, p)

\* g, read as the placements of columns 1, 2, ... of p, is accepted by
\* every row from its template on
RowsAccept(g, p) ==
    RowsAcceptFrom([r \in 1..NRow(p) |-> RowTemplate(p, r)], g, 1, p)

\* C18, as the specification states it: for a satisfiable puzzle, entry c
\* of the sequence solve_recursive returns is the placement of column c, so
\* it decodes to vertical[c] (stated here for puzzles whose lines all have
\* at least one block and slack >= 0).
C18_RecursiveColumnOrder ==
    (BlockPuzzle /\ HasSolution(puzzle) /\ rec.tag = "Some") =>
        /\ Len(rec.grid) = NCol(puzzle)
        /\ \A c \in 1..NCol(puzzle) : RunLengths(rec.grid[c]) = puzzle.vertical[c]

\* what solve_recursive does return on such puzzles: the placements in the
\* reverse of the column order, entry c being the placement of column
\* N_col - 1 - c; reversed, the sequence is a grid satisfying the puzzle
RecursiveColumnsReversed ==
    (BlockPuzzle /\ rec.tag = "Some") => Satisfies(Reverse(rec.grid), puzzle)

\* solve_recursive returns a grid exactly for the satisfiable puzzles among
\* those whose lines all have at least one block and slack >= 0
RecursiveComplete ==
    (BlockPuzzle /\ rec # Running) =>
        IF HasSolution(puzzle) THEN rec.tag = "Some" ELSE rec.tag = "None"

\* both engines have ended on the same row templates and column BlockSpecs
BothEnded == pc = "done" /\ rec # Running

\* C20, as the specification states it: on a puzzle whose lines all have
\* slack >= 0, solve_recursive and solve_stacked both return none or both
\* return a grid, and each grid returned holds for each column a placement
\* that all rows accept under advance_row (the grid of solve_recursive read
\* in the order its placements were chosen).
C20_EngineAgreement ==
    (WellFormed(puzzle) /\ BothEnded) =>
        /\ \/ result.tag = "None" /\ rec.tag = "None"
           \/ result.tag = "Some" /\ rec.tag = "Some"
        /\ result.tag = "Some" => RowsAccept(result.grid, puzzle)
        /\ rec.tag = "Some" => RowsAccept(Reverse(rec.grid), puzzle)

\* what is left of C20 when no line is a zero-block line: the engines agree
\* and their placements are accepted by every row
EnginesAgreeOnBlockLines ==
    (BlockPuzzle /\ BothEnded) =>
        /\ \/ result.tag = "None" /\ rec.tag = "None"
           \/ result.tag = "Some" /\ rec.tag = "Some"
        /\ result.tag = "Some" => RowsAccept(result.grid, puzzle)
        /\ rec.tag = "Some" => RowsAccept(Reverse(rec.grid), puzzle)

\* the engines return different grids on a puzzle with several solutions:
\* solve_recursive the first in enumeration order, solve_stacked the last
EnginesDifferentGrids ==
    /\ BlockPuzzle /\ BothEnded
    /\ result.tag = "Some" /\ rec.tag = "Some"
    /\ result.grid # Reverse(rec.grid)

\* the engines end differently on a puzzle whose lines all have slack >= 0:
\* solve_recursive returns at the first placement of a zero-block column
\* that leads to a grid, solve_stacked asks the column for its second
\* placement and panics
EnginesDisagree ==
    /\ WellFormed(puzzle) /\ BothEnded
    /\ rec.tag = "Some" /\ result.tag = "Panic"

=============================================================================
